---- MODULE Spec2Model ----
(***************************************************************************)
(* Share mode lock record manager of source3/locking/share_mode_lock.c     *)
(* (samba 4.11.12): the reference counted single slot lock over one        *)
(* file's share mode record, its persistence in locking.tdb, the memcache  *)
(* of decoded records, do_locked and the unlocked fetch paths.             *)
(*                                                                         *)
(* Several smbd processes run the code against one store.  Each operation  *)
(* of the file is one action; its body is the sequential composition of    *)
(* the C statements, written as operators on a state record.  Memory       *)
(* allocation is taken to succeed.                                         *)
(***************************************************************************)
EXTENDS Integers, Sequences, FiniteSets, TLC

\* ------------------------------------------------------------------ bounds
\* Width of the sequence number: sequence numbers are taken modulo SeqMod.
SeqMod == 3
\* Longest share mode entry list a mutator builds.
MaxEntries == 1
\* Most handles a process holds at a time.
MaxRefs == 2
\* Width of the global sequence number of locking.tdb (an int): it is taken
\* modulo SeqnumMod.
SeqnumMod == 2

\* --------------------------------------------------------------- universes
\* smbd processes sharing locking.tdb.
Procs == {1, 2}
\* File identities (struct file_id); 0 stands for "no key".
Ids == {1, 2}
\* Values of the flags byte (bit 0: SHARE_MODE_HAS_READ_LEASE).
FlagVals == {0, 1}
\* base_name / servicepath / old_write_time of the one path used for a file.
NameOf(id) == 10 + id
\* Share mode entries a mutator can add.
EntryA == [pid |-> 1, share_file_id |-> 42, stale |-> FALSE]
EntryB == [pid |-> 2, share_file_id |-> 7, stale |-> FALSE]
EntryVals == {EntryA, EntryB}
SeqVals == 0 .. (SeqMod - 1)

\* -------------------------------------------------------------- option type
None == <<>>
Some(x) == <<x>>
IsSome(o) == Len(o) = 1
Get(o) == o[1]

\* A db_record pointer: the key it locks and where the record lives.
NoRec == [key |-> 0, kind |-> "none"]
HeapRec(id) == [key |-> id, kind |-> "talloc"]
StackRec(id) == [key |-> id, kind |-> "stack"]

VARIABLES
    store,      \* locking.tdb: id -> None | Some(blob); a blob is a Seq of Nat
    dbLock,     \* id -> process holding the per-key lock, 0 if free
    data,       \* static_share_mode_data: p -> None | Some(share_mode_data)
    refcount,   \* static_share_mode_data_refcount
    rec,        \* static_share_mode_record
    talloced,   \* static_share_mode_record_talloced
    cache,      \* memcache SHARE_MODE_LOCK_CACHE: p -> id -> None | Some(d)
    alive,      \* p -> FALSE once the process has called smb_panic
    frames,     \* p -> stack of share_mode_do_locked calls whose callback runs
    req,        \* p -> the outstanding fetch_share_mode_send request
    fsp,        \* p -> None | Some(files_struct): the open file_has_read_lease
                \* is asked about; its share_mode_flags_seqnum is kept as
                \* seqnum_lag = dbwrap_get_seqnum(lock_db) - share_mode_flags_seqnum
    last        \* the operation performed by the last step and its outcome

vars == <<store, dbLock, data, refcount, rec, talloced, cache, alive, frames,
          req, fsp, last>>

\* ------------------------------------------------------------------- codec
\* ndr_push_share_mode_data: 8 byte sequence number, 1 byte flags, the names,
\* the entry count, the entries.  The [skip]/[ignore] members (modified,
\* fresh, record, id, stale) are not written.
EncodeEntry(e) == e.pid * 100 + e.share_file_id
DecodeEntry(c) == [pid |-> c \div 100, share_file_id |-> c % 100, stale |-> FALSE]

RECURSIVE share_entry_traverse_fn_NoStop(_, _, _, _)
RECURSIVE share_entry_traverse_fn(_, _, _, _)
RECURSIVE dbwrap_traverse_read(_, _, _, _)
RECURSIVE EncodeEntries(_)
EncodeEntries(es) ==
    IF es = <<>> THEN <<>> ELSE <<EncodeEntry(Head(es))>> \o EncodeEntries(Tail(es))

ndr_push_share_mode_data(d) ==
    <<d.sequence_number, d.flags, d.base_name, Len(d.share_modes)>>
        \o EncodeEntries(d.share_modes)

\* ndr_pull_struct_blob_all: every byte must be consumed.
BlobDecodable(blob) ==
    /\ Len(blob) >= 4
    /\ Len(blob) = 4 + blob[4]

ndr_pull_share_mode_data(blob) ==
    [id |-> 0,
     sequence_number |-> blob[1],
     flags |-> blob[2],
     base_name |-> blob[3],
     share_modes |-> [i \in 1 .. blob[4] |-> DecodeEntry(blob[4 + i])],
     modified |-> FALSE,
     fresh |-> FALSE,
     record |-> NoRec]

\* get_share_mode_blob_header: the peek at the first 9 bytes.
HeaderReadable(blob) == Len(blob) >= 2
get_share_mode_blob_header(blob) ==
    IF HeaderReadable(blob)
    THEN [ok |-> TRUE, seq |-> blob[1], flags |-> blob[2]]
    ELSE [ok |-> FALSE, seq |-> 0, flags |-> 0]

\* dbwrap_record_get_value: dptr is NULL for a missing or zero length value.
ValueIsNull(v) == v = None \/ Get(v) = <<>>


\* ------------------------------------------------- sequential-code state
\* The C statements of one operation transform this record; the action then
\* installs its fields as the next state.  io, ret, status, out, chit, parsed,
\* calls, unlockedWrite and lck describe the run of the operation itself.
Cur ==
    [store |-> store, dbLock |-> dbLock, data |-> data, refcount |-> refcount,
     rec |-> rec, talloced |-> talloced, cache |-> cache, alive |-> alive,
     frames |-> frames,
     io |-> <<>>, ret |-> "", status |-> "OK", out |-> None,
     chit |-> "none", parsed |-> "none", calls |-> 0, unlockedWrite |-> FALSE,
     lck |-> None]

Log(s, what) == [s EXCEPT !.io = Append(@, what)]

\* smb_panic / a failed SMB_ASSERT: the process stops where it is.
smb_panic(s, p) == [s EXCEPT !.alive[p] = FALSE, !.ret = "PANIC"]

\* --------------------------------------------------------- store (dbwrap)
dbwrap_fetch_locked(s, p, id) ==
    Log([s EXCEPT !.dbLock[id] = p, !.rec[p] = HeapRec(id)], "fetch_locked")

\* TALLOC_FREE(static_share_mode_record): unlocks the key.
FreeRecord(s, p) ==
    Log([s EXCEPT !.dbLock[s.rec[p].key] = 0, !.rec[p] = NoRec], "unlock")

dbwrap_record_get_value(s, r) == s.store[r.key]

dbwrap_record_store(s, p, r, blob, ok) ==
    IF ok
    THEN Log([s EXCEPT !.store[r.key] = Some(blob),
                       !.unlockedWrite = @ \/ (s.dbLock[r.key] # p)], "store")
    ELSE Log([s EXCEPT !.status = "UNSUCCESSFUL"], "store_failed")

dbwrap_record_delete(s, p, r, ok) ==
    IF ok
    THEN Log([s EXCEPT !.store[r.key] = None,
                       !.unlockedWrite = @ \/ (s.dbLock[r.key] # p)], "delete")
    ELSE Log([s EXCEPT !.status = "UNSUCCESSFUL"], "delete_failed")

dbwrap_watched_wakeup(s, r) == Log(s, "wakeup")

\* ---------------------------------------------------------------- memcache
\* Variant: the record goes into the cache as it is.
share_mode_memcache_store_AsIs(s, p, d) ==
    Log([s EXCEPT !.cache[p][d.id] = Some(d)], "cache_add")

share_mode_memcache_store(s, p, d) ==
    Log([s EXCEPT !.cache[p][d.id] =
                      Some([d EXCEPT !.modified = FALSE, !.fresh = FALSE])],
        "cache_add")

\* Variant: a cached record is used without comparing sequence numbers.
share_mode_memcache_fetch_NoSeqCheck(s, p, id, blob) ==
    LET ptr == s.cache[p][id]
        hdr == get_share_mode_blob_header(blob)
    IN  IF ptr = None THEN [s EXCEPT !.out = None, !.chit = "absent"]
        ELSE IF ~hdr.ok
        THEN [s EXCEPT !.cache[p][id] = None, !.out = None, !.chit = "badhdr"]
        ELSE [s EXCEPT !.cache[p][id] = None, !.out = ptr, !.chit = "hit"]

\* Sets out to the cached record on a hit, to None on a miss.
share_mode_memcache_fetch(s, p, id, blob) ==
    LET ptr == s.cache[p][id]
        hdr == get_share_mode_blob_header(blob)
        evict(how) == [s EXCEPT !.cache[p][id] = None, !.out = None, !.chit = how]
    IN  IF ptr = None THEN [s EXCEPT !.out = None, !.chit = "absent"]
        ELSE IF ~hdr.ok THEN evict("badhdr")
        ELSE IF Get(ptr).sequence_number # hdr.seq THEN evict("seqchanged")
        ELSE [s EXCEPT !.cache[p][id] = None, !.out = ptr, !.chit = "hit"]

parse_share_modes(s, p, id, blob) ==
    LET s1 == share_mode_memcache_fetch(s, p, id, blob)
    IN  IF IsSome(s1.out) THEN [s1 EXCEPT !.parsed = "cached"]
        ELSE IF BlobDecodable(blob)
        THEN [s1 EXCEPT !.out = Some(ndr_pull_share_mode_data(blob)),
                        !.parsed = "decoded"]
        ELSE [s1 EXCEPT !.out = None, !.parsed = "corrupt"]

\* --------------------------------------------------------- record handling
\* remove_stale_share_mode_entries (locking.c).
remove_stale_share_mode_entries(d) ==
    [d EXCEPT !.share_modes = SelectSeq(@, LAMBDA e : ~e.stale)]

\* Variant: an emptied record is written back instead of deleted.
share_mode_data_store_WriteEmpty(s, p, ok) ==
    LET d == Get(s.data[p])
        d1 == remove_stale_share_mode_entries(
                  [d EXCEPT !.sequence_number = (@ + 1) % SeqMod])
        s1 == [s EXCEPT !.data[p] = Some(d1)]
    IN  IF ~d.modified THEN s
        ELSE dbwrap_record_store(s1, p, d1.record,
                                 ndr_push_share_mode_data(d1), ok)

\* Variant: the record is persisted whether or not it was modified.
share_mode_data_store_Always(s, p, ok) ==
    LET d == Get(s.data[p])
        d1 == remove_stale_share_mode_entries(
                  [d EXCEPT !.sequence_number = (@ + 1) % SeqMod])
        s1 == [s EXCEPT !.data[p] = Some(d1)]
    IN  IF Len(d1.share_modes) = 0
        THEN IF d1.fresh THEN s1
             ELSE dbwrap_record_delete(s1, p, d1.record, ok)
        ELSE dbwrap_record_store(s1, p, d1.record,
                                 ndr_push_share_mode_data(d1), ok)

\* share_mode_data_store on static_share_mode_data of p.
share_mode_data_store(s, p, ok) ==
    LET d == Get(s.data[p])
        d1 == remove_stale_share_mode_entries(
                  [d EXCEPT !.sequence_number = (@ + 1) % SeqMod])
        s1 == [s EXCEPT !.data[p] = Some(d1)]
    IN  IF ~d.modified THEN s
        ELSE IF Len(d1.share_modes) = 0
        THEN IF d1.fresh THEN s1
             ELSE dbwrap_record_delete(s1, p, d1.record, ok)
        ELSE dbwrap_record_store(s1, p, d1.record,
                                 ndr_push_share_mode_data(d1), ok)

\* Variant: the record is built without looking at the parameters.
fresh_share_mode_lock_NoCheck(id, params, rnd) ==
    Some([id |-> 0, sequence_number |-> rnd, flags |-> 0,
          base_name |-> NameOf(id), share_modes |-> <<>>,
          modified |-> FALSE, fresh |-> TRUE, record |-> NoRec])

\* fresh_share_mode_lock: params is FALSE when servicepath, smb_fname or
\* old_write_time is NULL; rnd is what generate_random_buffer produces.
fresh_share_mode_lock(id, params, rnd) ==
    IF ~params THEN None
    ELSE Some([id |-> 0, sequence_number |-> rnd, flags |-> 0,
               base_name |-> NameOf(id), share_modes |-> <<>>,
               modified |-> FALSE, fresh |-> TRUE, record |-> NoRec])

get_static_share_mode_data(s, p, r, id, params, rnd) ==
    LET value == dbwrap_record_get_value(s, r)
        bind(s1) == [s1 EXCEPT !.data[p] =
                         Some([Get(s1.out) EXCEPT !.id = id, !.record = r]),
                               !.out = None, !.status = "OK"]
    IN  IF IsSome(s.data[p]) THEN smb_panic(s, p)
        ELSE IF ValueIsNull(value)
        THEN LET d == fresh_share_mode_lock(id, params, rnd)
             IN  IF d = None THEN [s EXCEPT !.status = "NO_MEMORY"]
                 ELSE bind([s EXCEPT !.out = d, !.parsed = "fresh"])
        ELSE LET s1 == parse_share_modes(s, p, id, Get(value))
             IN  IF s1.out = None
                 THEN [s1 EXCEPT !.status = "INTERNAL_DB_CORRUPTION"]
                 ELSE bind(s1)


\* ------------------------------------------------------------ lock manager
\* Variant: the comparison of the two identities is left out.
file_id_equal_Always(a, b) == TRUE

\* file_id_equal / tdb_data_cmp(...) == 0 on two keys.
file_id_equal(a, b) == a = b

\* Variant: the handle is returned without counting the reference.
GetDone_NoRef(s, p) == [s EXCEPT !.ret = "lck"]

\* The "done:" exit of get_share_mode_lock: one more reference, a handle
\* whose data member is static_share_mode_data.
GetDone(s, p) == [s EXCEPT !.refcount[p] = @ + 1, !.ret = "lck"]

\* Variant: a call for another file takes the occupied slot over.
get_share_mode_lock_Rebind(s, p, id, params, fetch_ok, rnd) ==
    IF IsSome(s.data[p])
    THEN GetDone([s EXCEPT !.data[p] = Some([Get(@) EXCEPT !.id = id])], p)
    ELSE IF s.refcount[p] # 0 THEN smb_panic(s, p)
    ELSE IF s.rec[p] = NoRec
    THEN IF ~fetch_ok THEN [Log(s, "fetch_locked_failed") EXCEPT !.ret = "NULL"]
         ELSE LET s1 == [dbwrap_fetch_locked(s, p, id)
                             EXCEPT !.talloced[p] = TRUE]
                  s2 == get_static_share_mode_data(
                            s1, p, s1.rec[p], id, params, rnd)
              IN  IF ~s2.alive[p] THEN s2
                  ELSE IF s2.status # "OK"
                  THEN [FreeRecord(s2, p) EXCEPT !.ret = "NULL"]
                  ELSE GetDone(s2, p)
    ELSE IF ~file_id_equal(s.rec[p].key, id) THEN [s EXCEPT !.ret = "NULL"]
    ELSE LET s2 == get_static_share_mode_data(
                       s, p, s.rec[p], id, params, rnd)
         IN  IF ~s2.alive[p] THEN s2
             ELSE IF s2.status # "OK" THEN [s2 EXCEPT !.ret = "NULL"]
             ELSE GetDone(s2, p)

\* get_share_mode_lock.  fetch_ok is the outcome of dbwrap_fetch_locked.
get_share_mode_lock(s, p, id, params, fetch_ok, rnd) ==
    LET fail(s1) == [s1 EXCEPT !.ret = "NULL"]
    IN  IF IsSome(s.data[p])
        THEN IF ~file_id_equal(Get(s.data[p]).id, id) THEN fail(s)
             ELSE GetDone(s, p)
        ELSE IF s.refcount[p] # 0 THEN smb_panic(s, p)
        ELSE IF s.rec[p] = NoRec
        THEN IF ~fetch_ok THEN fail(Log(s, "fetch_locked_failed"))
             ELSE LET s1 == [dbwrap_fetch_locked(s, p, id)
                                 EXCEPT !.talloced[p] = TRUE]
                      s2 == get_static_share_mode_data(
                                s1, p, s1.rec[p], id, params, rnd)
                  IN  IF ~s2.alive[p] THEN s2
                      ELSE IF s2.status # "OK" THEN fail(FreeRecord(s2, p))
                      ELSE GetDone(s2, p)
        ELSE IF ~file_id_equal(s.rec[p].key, id) THEN fail(s)
        ELSE LET s2 == get_static_share_mode_data(
                           s, p, s.rec[p], id, params, rnd)
             IN  IF ~s2.alive[p] THEN s2
                 ELSE IF s2.status # "OK" THEN fail(s2)
                 ELSE GetDone(s2, p)

\* Variant: the record goes to the memcache whether or not it has entries.
DestructorTail_CacheAlways(s, p) ==
    LET d == Get(s.data[p])
        s1 == [s EXCEPT !.data[p] = Some([d EXCEPT !.record = NoRec])]
        s2 == IF s1.talloced[p] THEN FreeRecord(s1, p) ELSE s1
    IN  IF d.record # s.rec[p] THEN smb_panic(s, p)
        ELSE [share_mode_memcache_store(s2, p, Get(s2.data[p]))
                  EXCEPT !.data[p] = None, !.ret = "0"]

\* Variant: the record is moved to the memcache before the locking.tdb lock
\* is dropped.
DestructorTail_CacheFirst(s, p) ==
    LET d == Get(s.data[p])
        s1 == [s EXCEPT !.data[p] = Some([d EXCEPT !.record = NoRec])]
        s2 == IF Len(d.share_modes) # 0
              THEN share_mode_memcache_store(s1, p, Get(s1.data[p]))
              ELSE s1
        s3 == IF s2.talloced[p] THEN FreeRecord(s2, p) ELSE s2
    IN  IF d.record # s.rec[p] THEN smb_panic(s, p)
        ELSE [s3 EXCEPT !.data[p] = None, !.ret = "0"]

\* The part of share_mode_lock_destructor that runs once the record has been
\* persisted: drop the locking.tdb lock, then cache or free the record.
DestructorTail(s, p) ==
    LET d == Get(s.data[p])
        s1 == [s EXCEPT !.data[p] = Some([d EXCEPT !.record = NoRec])]
        s2 == IF s1.talloced[p] THEN FreeRecord(s1, p) ELSE s1
    IN  IF d.record # s.rec[p] THEN smb_panic(s, p)
        ELSE IF Len(d.share_modes) # 0
        THEN [share_mode_memcache_store(s2, p, Get(s2.data[p]))
                  EXCEPT !.data[p] = None, !.ret = "0"]
        ELSE [s2 EXCEPT !.data[p] = None, !.ret = "0"]

\* Variant: every release persists, not only the last one.
share_mode_lock_destructor_Eager(s, p, store_ok) ==
    LET s1 == [s EXCEPT !.refcount[p] = @ - 1]
        s2 == share_mode_data_store(s1, p, store_ok)
    IN  IF s.refcount[p] = 0 THEN smb_panic(s, p)
        ELSE IF s2.status # "OK" THEN smb_panic(s2, p)
        ELSE IF s1.refcount[p] > 0 THEN [s2 EXCEPT !.ret = "0"]
        ELSE DestructorTail(s2, p)

\* Variant: a failed store is logged and the release carries on.
share_mode_lock_destructor_NoPanic(s, p, store_ok) ==
    LET s1 == [s EXCEPT !.refcount[p] = @ - 1]
        s2 == share_mode_data_store(s1, p, store_ok)
    IN  IF s.refcount[p] = 0 THEN smb_panic(s, p)
        ELSE IF s1.refcount[p] > 0 THEN [s1 EXCEPT !.ret = "0"]
        ELSE DestructorTail(s2, p)

\* Variant: the locking.tdb lock is dropped before the record is persisted.
share_mode_lock_destructor_UnlockFirst(s, p, store_ok) ==
    LET s1 == [s EXCEPT !.refcount[p] = @ - 1]
        s2 == IF s1.talloced[p] THEN FreeRecord(s1, p) ELSE s1
        s3 == share_mode_data_store(s2, p, store_ok)
    IN  IF s.refcount[p] = 0 THEN smb_panic(s, p)
        ELSE IF s1.refcount[p] > 0 THEN [s1 EXCEPT !.ret = "0"]
        ELSE IF s3.status # "OK" THEN smb_panic(s3, p)
        ELSE DestructorTail(s3, p)

\* share_mode_lock_destructor (TALLOC_FREE of a handle).  store_ok is the
\* outcome of the dbwrap_record_store / dbwrap_record_delete it may issue.
share_mode_lock_destructor(s, p, store_ok) ==
    LET s1 == [s EXCEPT !.refcount[p] = @ - 1]
        s2 == share_mode_data_store(s1, p, store_ok)
    IN  IF s.refcount[p] = 0 THEN smb_panic(s, p)
        ELSE IF s1.refcount[p] > 0 THEN [s1 EXCEPT !.ret = "0"]
        ELSE IF s2.status # "OK" THEN smb_panic(s2, p)
        ELSE DestructorTail(s2, p)


\* ---------------------------------------------------------------- do_locked
\* A running share_mode_do_locked call: the refcount it saved on entry and
\* whether it went through dbwrap_do_locked (own) and made the record it got
\* the static one (reset).
Frame(id, rc, own, reset) == [id |-> id, refcount |-> rc, own |-> own, reset |-> reset]

\* Variant: static_share_mode_record_talloced is left as it was.
share_mode_do_locked_fn_KeepTalloced(s, p, id) ==
    IF s.rec[p] = NoRec
    THEN [s EXCEPT !.rec[p] = StackRec(id),
                   !.frames[p] = Append(@, Frame(id, s.refcount[p], TRUE, TRUE)),
                   !.calls = @ + 1]
    ELSE IF s.rec[p] # StackRec(id) THEN smb_panic(s, p)
    ELSE [s EXCEPT !.frames[p] = Append(@, Frame(id, s.refcount[p], TRUE, FALSE)),
                   !.calls = @ + 1]

\* share_mode_do_locked_fn up to the call of the callback.
share_mode_do_locked_fn(s, p, id) ==
    IF s.rec[p] = NoRec
    THEN [s EXCEPT !.rec[p] = StackRec(id), !.talloced[p] = FALSE,
                   !.frames[p] = Append(@, Frame(id, s.refcount[p], TRUE, TRUE)),
                   !.calls = @ + 1]
    ELSE IF s.rec[p] # StackRec(id) THEN smb_panic(s, p)
    ELSE [s EXCEPT !.frames[p] = Append(@, Frame(id, s.refcount[p], TRUE, FALSE)),
                   !.calls = @ + 1]

\* Variant: the held record is used whatever key it locks.
DoLockedBegin_NoCmp(s, p, id, do_ok) ==
    IF s.rec[p] # NoRec
    THEN [s EXCEPT !.frames[p] =
                       Append(@, Frame(id, s.refcount[p], FALSE, FALSE)),
                   !.calls = @ + 1]
    ELSE IF ~do_ok THEN Log([s EXCEPT !.ret = "UNSUCCESSFUL"], "do_locked_failed")
    ELSE share_mode_do_locked_fn(
             Log([s EXCEPT !.dbLock[id] = p], "do_locked"), p, id)

\* share_mode_do_locked up to the call of the callback.  do_ok is the outcome
\* of dbwrap_do_locked.  An accepted call leaves its frame on frames[p].
DoLockedBegin(s, p, id, do_ok) ==
    IF s.rec[p] # NoRec
    THEN IF ~file_id_equal(s.rec[p].key, id)
         THEN [s EXCEPT !.ret = "INVALID_LOCK_SEQUENCE"]
         ELSE [s EXCEPT !.frames[p] =
                            Append(@, Frame(id, s.refcount[p], FALSE, FALSE)),
                        !.calls = @ + 1]
    ELSE IF ~do_ok THEN Log([s EXCEPT !.ret = "UNSUCCESSFUL"], "do_locked_failed")
    ELSE share_mode_do_locked_fn(
             Log([s EXCEPT !.dbLock[id] = p], "do_locked"), p, id)

\* Variant: static_share_mode_record is reset on return whoever set it.
DoLockedEnd_ResetAlways(s, p, md) ==
    LET fr == s.frames[p][Len(s.frames[p])]
        s0 == [s EXCEPT !.frames[p] = SubSeq(@, 1, Len(@) - 1)]
        s1 == IF md THEN dbwrap_watched_wakeup(s0, s0.rec[p]) ELSE s0
        s2 == [s1 EXCEPT !.rec[p] = NoRec]
        s3 == IF fr.own THEN Log([s2 EXCEPT !.dbLock[fr.id] = 0], "unlock") ELSE s2
    IN  IF fr.refcount # s3.refcount[p] THEN smb_panic(s3, p)
        ELSE [s3 EXCEPT !.ret = "OK"]

\* share_mode_do_locked from the return of the callback.  md is the
\* callback's modified_dependent.
DoLockedEnd(s, p, md) ==
    LET fr == s.frames[p][Len(s.frames[p])]
        s0 == [s EXCEPT !.frames[p] = SubSeq(@, 1, Len(@) - 1)]
        s1 == IF md THEN dbwrap_watched_wakeup(s0, s0.rec[p]) ELSE s0
        s2 == IF fr.reset THEN [s1 EXCEPT !.rec[p] = NoRec] ELSE s1
        s3 == IF fr.own THEN Log([s2 EXCEPT !.dbLock[fr.id] = 0], "unlock") ELSE s2
    IN  IF fr.refcount # s3.refcount[p] THEN smb_panic(s3, p)
        ELSE [s3 EXCEPT !.ret = "OK"]

\* ------------------------------------------------------------------ actions
NoReq == [st |-> "none", id |-> 0, status |-> "OK", lck |-> None, seen |-> "none"]

Init ==
    /\ store = [i \in Ids |-> None]
    /\ dbLock = [i \in Ids |-> 0]
    /\ data = [p \in Procs |-> None]
    /\ refcount = [p \in Procs |-> 0]
    /\ rec = [p \in Procs |-> NoRec]
    /\ talloced = [p \in Procs |-> FALSE]
    /\ cache = [p \in Procs |-> [i \in Ids |-> None]]
    /\ alive = [p \in Procs |-> TRUE]
    /\ frames = [p \in Procs |-> <<>>]
    /\ req = [p \in Procs |-> NoReq]
    /\ fsp = [p \in Procs |-> None]
    /\ last = [op |-> "init"]

\* What the process and the store looked like when the operation started.
Pre(p, id) ==
    [data |-> data[p], refcount |-> refcount[p], rec |-> rec[p],
     talloced |-> talloced[p],
     frame |-> IF frames[p] = <<>> THEN None ELSE Some(frames[p][Len(frames[p])]),
     value |-> store[id],
     lock |-> dbLock[id],
     cached |-> cache[p][id],
     req |-> req[p]]

\* locking.tdb is opened with TDB_SEQNUM: every write to it adds one to its
\* sequence number, so every open falls one more behind.
Writes(io) == Cardinality({i \in 1 .. Len(io) : io[i] \in {"store", "delete"}})
Lagged(f, n) ==
    [p \in Procs |->
        IF f[p] = None THEN None
        ELSE Some([Get(f[p]) EXCEPT !.seqnum_lag = (@ + n) % SeqnumMod])]

\* Install the state an operation ended in.
Installed(s) ==
    /\ fsp' = Lagged(fsp, Writes(s.io))
    /\ store' = s.store
    /\ dbLock' = s.dbLock
    /\ data' = s.data
    /\ refcount' = s.refcount
    /\ rec' = s.rec
    /\ talloced' = s.talloced
    /\ cache' = s.cache
    /\ alive' = s.alive
    /\ frames' = s.frames

\* What is recorded of an operation: its outcome and the state it began in.
Outcome(s, op, p, id) ==
    [op |-> op, p |-> p, id |-> id, ret |-> s.ret, io |-> s.io,
     chit |-> s.chit, parsed |-> s.parsed, calls |-> s.calls, out |-> s.out,
     unlockedWrite |-> s.unlockedWrite, pre |-> Pre(p, id)]

\* Install the state an operation ended in and record the operation.
Done(s, op, p, id) ==
    /\ Installed(s)
    /\ last' = Outcome(s, op, p, id)

\* dbwrap_fetch_locked and dbwrap_do_locked block while another holder has
\* the key.
WouldLock(p, id) == IsSome(data[p]) = FALSE /\ rec[p] = NoRec

\* The inputs an operation reads in the current state; an input it does not
\* read is not enumerated.
FetchOutcomes(p, id) == IF WouldLock(p, id) THEN BOOLEAN ELSE {TRUE}
WouldCreate(p, id) ==
    /\ data[p] = None
    /\ rec[p] = NoRec \/ rec[p].key = id
    /\ ValueIsNull(store[id])
ParamChoices(p, id) == IF WouldCreate(p, id) THEN BOOLEAN ELSE {TRUE}
RandomChoices(p, id) == IF WouldCreate(p, id) THEN SeqVals ELSE {0}
DoOutcomes(p) == IF rec[p] = NoRec THEN BOOLEAN ELSE {TRUE}
\* Whether the final release of p issues a store or a delete.
WouldPersist(p) ==
    /\ refcount[p] = 1
    /\ IsSome(data[p])
    /\ Get(data[p]).modified
    /\ ~(Get(data[p]).fresh /\ SelectSeq(Get(data[p]).share_modes,
                                           LAMBDA e : ~e.stale) = <<>>)
StoreOutcomes(p) == IF WouldPersist(p) THEN BOOLEAN ELSE {TRUE}

GetShareModeLock(p, id, params, fetch_ok, rnd) ==
    /\ alive[p]
    /\ refcount[p] < MaxRefs
    /\ (WouldLock(p, id) /\ fetch_ok) => dbLock[id] = 0
    /\ LET s == get_share_mode_lock(Cur, p, id, params, fetch_ok, rnd)
       IN  /\ Installed(s)
           /\ last' = Outcome(s, "get", p, id) @@ [params |-> params]
    /\ UNCHANGED req

\* TALLOC_FREE(lck) of a handle obtained from get_share_mode_lock.
Release(p, store_ok) ==
    /\ alive[p]
    /\ refcount[p] > 0
    /\ IsSome(data[p])
    /\ Done(share_mode_lock_destructor(Cur, p, store_ok), "release", p,
            Get(data[p]).id)
    /\ UNCHANGED req


\* The mutators of locking.c, run by the holder of a handle: each changes the
\* record in the slot and sets d->modified.
Mutated(p, d, what) ==
    Done([Cur EXCEPT !.data[p] = Some([d EXCEPT !.modified = TRUE]),
                     !.ret = what], "mutate", p, d.id)

RemoveAt(sq, i) == SubSeq(sq, 1, i - 1) \o SubSeq(sq, i + 1, Len(sq))

\* set_share_mode
AddEntry(p, e) ==
    /\ alive[p] /\ IsSome(data[p])
    /\ Len(Get(data[p]).share_modes) < MaxEntries
    /\ Mutated(p, [Get(data[p]) EXCEPT !.share_modes = Append(@, e)], "add")
    /\ UNCHANGED req

\* del_share_mode
DelEntry(p, i) ==
    /\ alive[p] /\ IsSome(data[p])
    /\ i \in 1 .. Len(Get(data[p]).share_modes)
    /\ Mutated(p, [Get(data[p]) EXCEPT !.share_modes = RemoveAt(@, i)], "del")
    /\ UNCHANGED req

\* share_mode_stale_pid
MarkStale(p, i) ==
    /\ alive[p] /\ IsSome(data[p])
    /\ i \in 1 .. Len(Get(data[p]).share_modes)
    /\ ~Get(data[p]).share_modes[i].stale
    /\ Mutated(p, [Get(data[p]) EXCEPT !.share_modes[i].stale = TRUE], "stale")
    /\ UNCHANGED req

\* The lease code setting or clearing SHARE_MODE_HAS_READ_LEASE.
SetFlags(p, f) ==
    /\ alive[p] /\ IsSome(data[p])
    /\ Get(data[p]).flags # f
    /\ Mutated(p, [Get(data[p]) EXCEPT !.flags = f], "flags")
    /\ UNCHANGED req

\* share_mode_do_locked with a callback that does not call back into this
\* file: fsp_update_share_mode_flags_fn ("peek") or
\* share_mode_wakeup_waiters_fn ("wakeup").
DoLocked(p, id, fn, do_ok) ==
    /\ alive[p]
    /\ (rec[p] = NoRec /\ do_ok) => dbLock[id] = 0
    /\ LET s1 == DoLockedBegin(Cur, p, id, do_ok)
       IN  IF s1.calls = 0 \/ ~s1.alive[p]
           THEN Done(s1, "do_locked", p, id)
           ELSE Done(DoLockedEnd(s1, p, fn = "wakeup"), "do_locked", p, id)
    /\ UNCHANGED req

\* share_mode_do_locked with a callback that uses get_share_mode_lock and
\* the mutators: the call is entered here, the callback's steps are the
\* process's next actions, and DoLockedReturn is the callback returning.
DoLockedEnter(p, id, do_ok) ==
    /\ alive[p]
    /\ frames[p] = <<>>
    /\ (rec[p] = NoRec /\ do_ok) => dbLock[id] = 0
    /\ Done(DoLockedBegin(Cur, p, id, do_ok), "do_locked_enter", p, id)
    /\ UNCHANGED req

DoLockedReturn(p) ==
    /\ alive[p]
    /\ frames[p] # <<>>
    /\ Done(DoLockedEnd(Cur, p, FALSE), "do_locked_return", p,
            frames[p][Len(frames[p])].id)
    /\ UNCHANGED req

\* ------------------------------------------------------- unlocked fetches
\* fetch_share_mode_unlocked_parser: lck stays NULL for a zero length value.
fetch_share_mode_unlocked_parser(s, p, id, blob) ==
    IF blob = <<>> THEN s
    ELSE LET s1 == parse_share_modes(s, p, id, blob)
         IN  [s1 EXCEPT !.lck = Some([data |-> s1.out])]

\* dbwrap_parse_record with that parser: a missing key is NOT_FOUND and the
\* parser does not run.
dbwrap_parse_record(s, p, id, ok) ==
    IF ~ok THEN [s EXCEPT !.status = "UNSUCCESSFUL"]
    ELSE IF s.store[id] = None THEN [s EXCEPT !.status = "NOT_FOUND"]
    ELSE fetch_share_mode_unlocked_parser(s, p, id, Get(s.store[id]))

\* What the caller of an unlocked fetch holds for a struct share_mode_lock *.
HandleOf(lck) ==
    IF lck = None THEN "NULL"
    ELSE IF Get(lck).data = None THEN "lck_without_data" ELSE "lck"

fetch_share_mode_unlocked(s, p, id, ok) ==
    LET s1 == dbwrap_parse_record(s, p, id, ok)
    IN  IF s1.status # "OK" THEN [s1 EXCEPT !.ret = "NULL", !.lck = None]
        ELSE [s1 EXCEPT !.ret = HandleOf(s1.lck)]

\* What the parser of an asynchronous request was given.
Seen(v) == IF v = None THEN "absent" ELSE IF Get(v) = <<>> THEN "tombstone" ELSE "blob"

\* Reading state->parser_state.lck->data through a NULL lck is undefined:
\* the process faults, or the read yields NULL, or it yields something else.
NullDerefOutcomes == {"SIGSEGV", "NOT_FOUND", "OK"}

\* fetch_share_mode_recv on a finished request r; ub is the outcome of the
\* read through lck when lck is NULL.
fetch_share_mode_recv(s, p, r, ub) ==
    IF r.st = "error" THEN [s EXCEPT !.ret = r.status]
    ELSE IF r.lck = None
    THEN IF ub = "SIGSEGV" THEN [s EXCEPT !.alive[p] = FALSE, !.ret = "SIGSEGV"]
         ELSE IF ub = "NOT_FOUND" THEN [s EXCEPT !.ret = "NOT_FOUND"]
         ELSE [s EXCEPT !.ret = "OK", !.lck = None]
    ELSE IF Get(r.lck).data = None THEN [s EXCEPT !.ret = "NOT_FOUND"]
    ELSE [s EXCEPT !.ret = "OK", !.lck = r.lck, !.out = Get(r.lck).data]

FetchShareModeUnlocked(p, id, ok) ==
    /\ alive[p]
    /\ Done(fetch_share_mode_unlocked(Cur, p, id, ok), "fetch_unlocked", p, id)
    /\ UNCHANGED req

\* fetch_share_mode_send; queued is what dbwrap reports of its send queue.
FetchSend(p, id, queued) ==
    /\ alive[p]
    /\ req[p].st = "none"
    /\ req' = [req EXCEPT ![p] = [st |-> "sent", id |-> id, status |-> "OK",
                                  lck |-> None, seen |-> "none"]]
    /\ Done([Cur EXCEPT !.ret = IF queued THEN "queued" ELSE "dispatched"],
            "fetch_send", p, id)

\* The dbwrap_parse_record_send request completes: the parser runs on the
\* value stored now and fetch_share_mode_done finishes the request.
FetchParse(p, ok) ==
    /\ alive[p]
    /\ req[p].st = "sent"
    /\ LET id == req[p].id
           s1 == dbwrap_parse_record(Cur, p, id, ok)
       IN  /\ req' = [req EXCEPT ![p] =
                        [st |-> IF s1.status = "OK" THEN "done" ELSE "error",
                         id |-> id, status |-> s1.status, lck |-> s1.lck,
                         seen |-> IF ok THEN Seen(store[id]) ELSE "none"]]
           /\ Done(s1, "fetch_parse", p, id)

FetchRecv(p, ub) ==
    /\ alive[p]
    /\ req[p].st \in {"done", "error"}
    /\ LET s1 == fetch_share_mode_recv(Cur, p, req[p], ub)
       IN  /\ req' = [req EXCEPT ![p] = IF s1.alive[p] THEN NoReq ELSE @]
           /\ Done(s1, "fetch_recv", p, req[p].id)

RecvOutcomes(p) ==
    IF req[p].st = "done" /\ req[p].lck = None THEN NullDerefOutcomes
    ELSE {"SIGSEGV"}

\* The store changing under the lock manager: a value is cut short, down to
\* the zero length value a ctdb tombstone is.
Truncate(id, n) ==
    /\ dbLock[id] = 0
    /\ IsSome(store[id])
    /\ n < Len(Get(store[id]))
    /\ store' = [store EXCEPT ![id] = Some(SubSeq(Get(store[id]), 1, n))]
    /\ last' = [op |-> "truncate", p |-> 0, id |-> id, ret |-> "", io |-> <<>>,
                chit |-> "none", parsed |-> "none", calls |-> 0, out |-> None,
                unlockedWrite |-> FALSE, n |-> n]
    /\ fsp' = Lagged(fsp, 1)
    /\ UNCHANGED <<dbLock, data, refcount, rec, talloced, cache, alive, frames, req>>

\* One process using the whole lock manager on two files.
Next ==
    \/ \E id \in Ids : \E params \in ParamChoices(1, id),
          fetch_ok \in FetchOutcomes(1, id), rnd \in RandomChoices(1, id) :
          GetShareModeLock(1, id, params, fetch_ok, rnd)
    \/ \E store_ok \in StoreOutcomes(1) : Release(1, store_ok)
    \/ AddEntry(1, EntryA)
    \/ \E i \in 1 .. MaxEntries : DelEntry(1, i)
    \/ \E i \in 1 .. MaxEntries : MarkStale(1, i)
    \/ \E id \in Ids, fn \in {"peek", "wakeup"}, do_ok \in DoOutcomes(1) :
          DoLocked(1, id, fn, do_ok)
    \/ \E id \in Ids, do_ok \in DoOutcomes(1) : DoLockedEnter(1, id, do_ok)
    \/ DoLockedReturn(1)

Spec == Init /\ [][Next]_vars

\* Several processes opening, changing, emptying and re-creating the record
\* of one file.
NextShared ==
    \/ \E p \in Procs : \E params \in ParamChoices(p, 1),
          fetch_ok \in FetchOutcomes(p, 1), rnd \in RandomChoices(p, 1) :
          GetShareModeLock(p, 1, params, fetch_ok, rnd)
    \/ \E p \in Procs : \E store_ok \in StoreOutcomes(p) : Release(p, store_ok)
    \/ \E p \in Procs, e \in EntryVals : AddEntry(p, e)
    \/ \E p \in Procs, i \in 1 .. MaxEntries : DelEntry(p, i)

SpecShared == Init /\ [][NextShared]_vars

\* Two processes on one file whose stored value can also be cut short;
\* process 1 also reads it without the lock.
NextStore ==
    \/ \E p \in Procs : \E params \in ParamChoices(p, 1),
          fetch_ok \in FetchOutcomes(p, 1), rnd \in RandomChoices(p, 1) :
          GetShareModeLock(p, 1, params, fetch_ok, rnd)
    \/ \E p \in Procs : \E store_ok \in StoreOutcomes(p) : Release(p, store_ok)
    \/ \E p \in Procs, e \in EntryVals : AddEntry(p, e)
    \/ \E p \in Procs, i \in 1 .. MaxEntries : DelEntry(p, i)
    \/ \E n \in 0 .. MaxEntries + 3 : Truncate(1, n)
    \/ \E ok \in BOOLEAN : FetchShareModeUnlocked(1, 1, ok)

SpecStore == Init /\ [][NextStore]_vars

\* One process creating the record of a file and reading it through the
\* synchronous and the asynchronous unlocked fetch while the stored value
\* can be cut short.
NextFetch ==
    \/ \E params \in ParamChoices(1, 1), fetch_ok \in FetchOutcomes(1, 1),
          rnd \in RandomChoices(1, 1) :
          GetShareModeLock(1, 1, params, fetch_ok, rnd)
    \/ \E store_ok \in StoreOutcomes(1) : Release(1, store_ok)
    \/ \E e \in EntryVals : AddEntry(1, e)
    \/ \E i \in 1 .. MaxEntries : DelEntry(1, i)
    \/ \E n \in 0 .. MaxEntries + 3 : Truncate(1, n)
    \/ \E ok \in BOOLEAN : FetchShareModeUnlocked(1, 1, ok)
    \/ \E queued \in BOOLEAN : FetchSend(1, 1, queued)
    \/ \E ok \in BOOLEAN : FetchParse(1, ok)
    \/ \E ub \in RecvOutcomes(1) : FetchRecv(1, ub)

SpecFetch == Init /\ [][NextFetch]_vars

\* ------------------------------------------- share_mode_cleanup_disconnected
\* Longest entry list of a record handed to share_mode_cleanup_disconnected.
MaxOpens == 2
\* The server_id a disconnected durable open is stored under
\* (server_id_set_disconnected), and the test for it.
DisconnectedPid == 0
server_id_is_disconnected(pid) == pid = DisconnectedPid
\* Entries of disconnected opens, with their persistent open ids.
OpenD42 == [pid |-> DisconnectedPid, share_file_id |-> 42, stale |-> FALSE]
OpenD7 == [pid |-> DisconnectedPid, share_file_id |-> 7, stale |-> FALSE]
OpenVals == {EntryA, OpenD42, OpenD7}
OpenIds == {42, 7}

\* get_existing_share_mode_lock: get_share_mode_lock without creation
\* parameters.
get_existing_share_mode_lock(s, p, id, fetch_ok) ==
    get_share_mode_lock(s, p, id, FALSE, fetch_ok, 0)

\* Variant: only the first entry is examined.
AllDisconnected_FirstOnly(d, open_persistent_id) ==
    \A n \in 1 .. Len(d.share_modes) :
        n = 1 => /\ server_id_is_disconnected(d.share_modes[n].pid)
                 /\ open_persistent_id = d.share_modes[n].share_file_id

\* The loop of share_mode_cleanup_disconnected over data->share_modes.
AllDisconnected(d, open_persistent_id) ==
    \A n \in 1 .. Len(d.share_modes) :
        /\ server_id_is_disconnected(d.share_modes[n].pid)
        /\ open_persistent_id = d.share_modes[n].share_file_id

\* share_mode_forall_leases with cleanup_disconnected_lease: one leases_db_del
\* per entry; the callback returns false whatever leases_db_del said, and
\* the caller only logs the result.
\* lease_ok is the outcome of the leases_db_del calls.
share_mode_forall_leases(s, p, lease_ok) ==
    [s EXCEPT !.io = @ \o [n \in 1 .. Len(Get(s.data[p]).share_modes)
                              |-> IF lease_ok THEN "leases_db_del"
                                              ELSE "leases_db_del_failed"]]

brl_cleanup_disconnected(s) == Log(s, "brl_cleanup")

\* Variant: the entry list is cleared before brl_cleanup_disconnected is
\* asked, so a failure there leaves the record emptied.
share_mode_cleanup_disconnected_ClearFirst(s, p, fid, open_persistent_id, fetch_ok, lease_ok, brl_ok, store_ok) ==
    LET s1 == get_existing_share_mode_lock(s, p, fid, fetch_ok)
        got == s1.data[p]
        done(sx, ret) ==
            LET s9 == share_mode_lock_destructor(sx, p, store_ok)
            IN  [s |-> IF s9.alive[p] THEN [s9 EXCEPT !.ret = ret] ELSE s9,
                 got |-> got, atfree |-> sx.data[p]]
    IN  IF ~s1.alive[p] THEN [s |-> s1, got |-> None, atfree |-> None]
        ELSE IF s1.ret = "NULL"
        THEN [s |-> [s1 EXCEPT !.ret = "FALSE"], got |-> None, atfree |-> None]
        ELSE IF ~AllDisconnected(Get(got), open_persistent_id)
        THEN done(s1, "FALSE")
        ELSE LET s2 == brl_cleanup_disconnected(
                           share_mode_forall_leases(s1, p, lease_ok))
                 s3 == [s2 EXCEPT !.data[p] =
                           Some([Get(got) EXCEPT !.share_modes = <<>>,
                                                 !.modified = TRUE])]
             IN  done(s3, IF brl_ok THEN "TRUE" ELSE "FALSE")

\* share_mode_cleanup_disconnected.  The result carries the final state, the
\* record get_existing_share_mode_lock gave (got) and the record as it was
\* when talloc_free(frame) released the handle (atfree).
share_mode_cleanup_disconnected(s, p, fid, open_persistent_id, fetch_ok, lease_ok, brl_ok, store_ok) ==
    LET s1 == get_existing_share_mode_lock(s, p, fid, fetch_ok)
        got == s1.data[p]
        done(sx, ret) ==
            LET s9 == share_mode_lock_destructor(sx, p, store_ok)
            IN  [s |-> IF s9.alive[p] THEN [s9 EXCEPT !.ret = ret] ELSE s9,
                 got |-> got, atfree |-> sx.data[p]]
    IN  IF ~s1.alive[p] THEN [s |-> s1, got |-> None, atfree |-> None]
        ELSE IF s1.ret = "NULL"
        THEN [s |-> [s1 EXCEPT !.ret = "FALSE"], got |-> None, atfree |-> None]
        ELSE IF ~AllDisconnected(Get(got), open_persistent_id)
        THEN done(s1, "FALSE")
        ELSE LET s2 == brl_cleanup_disconnected(
                           share_mode_forall_leases(s1, p, lease_ok))
             IN  IF ~brl_ok THEN done(s2, "FALSE")
                 ELSE done([s2 EXCEPT !.data[p] =
                               Some([Get(got) EXCEPT !.share_modes = <<>>,
                                                     !.modified = TRUE])],
                           "TRUE")

\* set_share_mode for the opens share_mode_cleanup_disconnected looks at.
AddOpen(p, e) ==
    /\ alive[p] /\ IsSome(data[p])
    /\ Len(Get(data[p]).share_modes) < MaxOpens
    /\ Mutated(p, [Get(data[p]) EXCEPT !.share_modes = Append(@, e)], "add")
    /\ UNCHANGED req

\* The inputs share_mode_cleanup_disconnected reads.
BrlOutcomes(p, fid) ==
    IF IsSome(data[p]) /\ Get(data[p]).id # fid THEN {TRUE} ELSE BOOLEAN

ShareModeCleanupDisconnected(p, fid, open_persistent_id, fetch_ok, lease_ok, brl_ok, store_ok) ==
    /\ alive[p]
    /\ refcount[p] < MaxRefs
    /\ (WouldLock(p, fid) /\ fetch_ok) => dbLock[fid] = 0
    /\ \E r \in {share_mode_cleanup_disconnected(
                    Cur, p, fid, open_persistent_id, fetch_ok, lease_ok, brl_ok,
                    store_ok)} :
           /\ store' = r.s.store
           /\ dbLock' = r.s.dbLock
           /\ data' = r.s.data
           /\ refcount' = r.s.refcount
           /\ rec' = r.s.rec
           /\ talloced' = r.s.talloced
           /\ cache' = r.s.cache
           /\ alive' = r.s.alive
           /\ frames' = r.s.frames
           /\ fsp' = Lagged(fsp, Writes(r.s.io))
           /\ last' = [op |-> "cleanup", p |-> p, id |-> fid, ret |-> r.s.ret,
                       io |-> r.s.io, chit |-> r.s.chit, parsed |-> r.s.parsed,
                       calls |-> r.s.calls, out |-> r.s.out,
                       unlockedWrite |-> r.s.unlockedWrite,
                       pre |-> Pre(p, fid),
                       open_persistent_id |-> open_persistent_id,
                       lease_ok |-> lease_ok, brl_ok |-> brl_ok,
                       got |-> r.got, atfree |-> r.atfree]
    /\ UNCHANGED req

\* One process holding handles of file 1, opens of live and of disconnected
\* owners, and share_mode_cleanup_disconnected of either file.
NextCleanup ==
    \/ \E fetch_ok \in FetchOutcomes(1, 1), params \in ParamChoices(1, 1),
          rnd \in RandomChoices(1, 1) :
          GetShareModeLock(1, 1, params, fetch_ok, rnd)
    \/ \E store_ok \in StoreOutcomes(1) : Release(1, store_ok)
    \/ \E e \in OpenVals : AddOpen(1, e)
    \/ \E fid \in Ids, open_persistent_id \in OpenIds :
          \E fetch_ok \in FetchOutcomes(1, fid), lease_ok \in BrlOutcomes(1, fid),
             brl_ok \in BrlOutcomes(1, fid), store_ok \in BOOLEAN :
             ShareModeCleanupDisconnected(1, fid, open_persistent_id,
                                          fetch_ok, lease_ok, brl_ok, store_ok)

SpecCleanup == Init /\ [][NextCleanup]_vars

\* ---------------------------------------------------------------- traversal
\* The orders in which dbwrap_traverse_read can hand out the keys.
Orders == {<<1, 2>>, <<2, 1>>}
\* The visitor: its stop_at-th invocation returns non-zero (0: none does),
\* every other one returns 0.
MaxStop == 3
StopChoices == 0 .. MaxStop
Visitor(stop_at, ncalls) == IF ncalls = stop_at THEN 1 ELSE 0

\* The state of one traversal: the visitor's invocations so far, the number
\* of records dbwrap handed to the callback, the callback's last return.
NoTraversal(stop_at) == [visits |-> <<>>, count |-> 0, ret |-> 0, stop_at |-> stop_at]

\* Variant: the loop goes on whatever the visitor returned.
share_entry_traverse_fn_NoStop(t, fid, d, i) ==
    IF i > Len(d.share_modes) THEN [t EXCEPT !.ret = 0]
    ELSE LET t1 == [t EXCEPT !.visits = Append(@, [fid |-> fid, i |-> i,
                                                   entry |-> d.share_modes[i]])]
         IN  share_entry_traverse_fn_NoStop(t1, fid, d, i + 1)

\* share_entry_traverse_fn from entry i on: the visitor is called per entry,
\* the first non-zero return ends the loop and is returned.
share_entry_traverse_fn(t, fid, d, i) ==
    IF i > Len(d.share_modes) THEN [t EXCEPT !.ret = 0]
    ELSE LET t1 == [t EXCEPT !.visits = Append(@, [fid |-> fid, i |-> i,
                                                   entry |-> d.share_modes[i]])]
             ret == Visitor(t.stop_at, Len(t1.visits))
         IN  IF ret # 0 THEN [t1 EXCEPT !.ret = ret]
             ELSE share_entry_traverse_fn(t1, fid, d, i + 1)

\* share_mode_traverse_fn on one record of locking.tdb: a value that does
\* not decode is passed over with 0; kind tells which visitor state->fn is.
share_mode_traverse_fn(t, fid, value, kind) ==
    IF ~BlobDecodable(value) THEN [t EXCEPT !.ret = 0]
    ELSE LET d == ndr_pull_share_mode_data(value)
         IN  IF kind = "entry" THEN share_entry_traverse_fn(t, fid, d, 1)
             ELSE LET t1 == [t EXCEPT !.visits =
                                Append(@, [fid |-> fid, i |-> 0, entry |-> d])]
                  IN  [t1 EXCEPT !.ret = Visitor(t.stop_at, Len(t1.visits))]

\* dbwrap_traverse_read: the callback is run on every record in turn until it
\* returns non-zero; the count is the number of records it was run on.
dbwrap_traverse_read(t, st, order, kind) ==
    IF order = <<>> THEN t
    ELSE IF st[Head(order)] = None
    THEN dbwrap_traverse_read(t, st, Tail(order), kind)
    ELSE LET t1 == share_mode_traverse_fn([t EXCEPT !.count = @ + 1],
                                          Head(order), Get(st[Head(order)]), kind)
         IN  IF t1.ret # 0 THEN t1
             ELSE dbwrap_traverse_read(t1, st, Tail(order), kind)

\* share_mode_forall (kind "record") and share_entry_forall (kind "entry"):
\* -1 when dbwrap_traverse_read fails, else the count it reports.
share_mode_forall(st, order, kind, stop_at, trav_ok) ==
    LET t == dbwrap_traverse_read(NoTraversal(stop_at), st, order, kind)
    IN  IF ~trav_ok THEN [ret |-> -1, visits |-> t.visits, count |-> t.count]
        ELSE [ret |-> t.count, visits |-> t.visits, count |-> t.count]

Traversed(op, p, order, stop_at, trav_ok, r) ==
    /\ last' = [op |-> op, p |-> p, id |-> 0, ret |-> r.ret, io |-> <<>>,
                chit |-> "none", parsed |-> "none", calls |-> Len(r.visits),
                out |-> None, unlockedWrite |-> FALSE,
                order |-> order, stop_at |-> stop_at, trav_ok |-> trav_ok,
                visits |-> r.visits]
    /\ UNCHANGED <<store, dbLock, data, refcount, rec, talloced, cache, alive,
                   frames, req, fsp>>

ShareModeForall(p, order, stop_at, trav_ok) ==
    /\ alive[p]
    /\ Traversed("share_mode_forall", p, order, stop_at, trav_ok,
                 share_mode_forall(store, order, "record", stop_at, trav_ok))

ShareEntryForall(p, order, stop_at, trav_ok) ==
    /\ alive[p]
    /\ Traversed("share_entry_forall", p, order, stop_at, trav_ok,
                 share_mode_forall(store, order, "entry", stop_at, trav_ok))

\* Where a stored value is cut: to a tombstone, or inside its header.
TraverseCuts == {0, 3}
\* dbwrap_traverse_read can fail; the runs that fail are taken with a visitor
\* that never stops.
TraverseOutcomes(stop_at) == IF stop_at = 0 THEN BOOLEAN ELSE {TRUE}

\* One process filling the records of two files, stored values cut short
\* behind its back, and share_mode_forall.
NextTraverse ==
    \/ \E id \in Ids : GetShareModeLock(1, id, TRUE, TRUE, 0)
    \/ Release(1, TRUE)
    \/ \E e \in EntryVals : AddEntry(1, e)
    \/ \E id \in Ids, n \in TraverseCuts : Truncate(id, n)
    \/ \E order \in Orders, stop_at \in StopChoices :
          \E trav_ok \in TraverseOutcomes(stop_at) :
             ShareModeForall(1, order, stop_at, trav_ok)

SpecTraverse == Init /\ [][NextTraverse]_vars

\* The same with records of several entries, the value of file 2 cut short,
\* and share_entry_forall.
NextEntries ==
    \/ \E id \in Ids : GetShareModeLock(1, id, TRUE, TRUE, 0)
    \/ Release(1, TRUE)
    \/ \E e \in EntryVals : AddOpen(1, e)
    \/ Truncate(2, 3)
    \/ \E order \in Orders, stop_at \in StopChoices :
          \E trav_ok \in TraverseOutcomes(stop_at) :
             ShareEntryForall(1, order, stop_at, trav_ok)

SpecEntries == Init /\ [][NextEntries]_vars

\* ---------------------------------------------------- file_has_read_lease
\* A files_struct as this file uses it.
Fsp(id, lag, flags) ==
    [file_id |-> id, seqnum_lag |-> lag, share_mode_flags |-> flags]
SeqnumLags == 0 .. (SeqnumMod - 1)
SHARE_MODE_HAS_READ_LEASE == 1

\* fsp_update_share_mode_flags_fn: the header peek on the locked record.
fsp_update_share_mode_flags_fn(s, r) ==
    LET value == dbwrap_record_get_value(s, r)
    IN  get_share_mode_blob_header(IF value = None THEN <<>> ELSE Get(value))

\* Variant: the flags are refreshed whatever the sequence numbers are.
fsp_update_share_mode_flags_Always(s, p, f, do_ok) ==
    LET s1 == DoLockedBegin(s, p, f.file_id, do_ok)
        hdr == fsp_update_share_mode_flags_fn(s1, s1.rec[p])
        s2 == DoLockedEnd(s1, p, FALSE)
    IN  IF s1.calls = 0 \/ ~s1.alive[p]
        THEN [s |-> [s1 EXCEPT !.status = s1.ret], fsp |-> f]
        ELSE IF ~s2.alive[p] THEN [s |-> s2, fsp |-> f]
        ELSE IF ~hdr.ok
        THEN [s |-> [s2 EXCEPT !.status = "BUFFER_TOO_SMALL"], fsp |-> f]
        ELSE [s |-> [s2 EXCEPT !.status = "OK"],
              fsp |-> [f EXCEPT !.seqnum_lag = 0, !.share_mode_flags = hdr.flags]]

\* fsp_update_share_mode_flags on the open f of process p: the final state
\* with the status in it, and the open as it is left.
fsp_update_share_mode_flags(s, p, f, do_ok) ==
    LET s1 == DoLockedBegin(s, p, f.file_id, do_ok)
        hdr == fsp_update_share_mode_flags_fn(s1, s1.rec[p])
        s2 == DoLockedEnd(s1, p, FALSE)
    IN  IF f.seqnum_lag = 0 THEN [s |-> [s EXCEPT !.status = "OK"], fsp |-> f]
        ELSE IF s1.calls = 0 \/ ~s1.alive[p]
        THEN [s |-> [s1 EXCEPT !.status = s1.ret], fsp |-> f]
        ELSE IF ~s2.alive[p] THEN [s |-> s2, fsp |-> f]
        ELSE IF ~hdr.ok
        THEN [s |-> [s2 EXCEPT !.status = "BUFFER_TOO_SMALL"], fsp |-> f]
        ELSE [s |-> [s2 EXCEPT !.status = "OK"],
              fsp |-> [f EXCEPT !.seqnum_lag = 0, !.share_mode_flags = hdr.flags]]

\* file_has_read_lease: true is the safe default when the refresh failed.
file_has_read_lease(s, p, f, do_ok) ==
    LET r == fsp_update_share_mode_flags(s, p, f, do_ok)
    IN  IF ~r.s.alive[p] THEN r
        ELSE IF r.s.status # "OK" THEN [r EXCEPT !.s.ret = "true"]
        ELSE [r EXCEPT !.s.ret =
                 IF r.fsp.share_mode_flags % 2 = SHARE_MODE_HAS_READ_LEASE
                 THEN "true" ELSE "false"]

\* An open of file id comes into being; lag is how far the sequence number
\* of locking.tdb is from the share_mode_flags_seqnum the open starts with.
OpenFsp(p, id, lag) ==
    /\ alive[p]
    /\ fsp[p] = None
    /\ fsp' = [fsp EXCEPT ![p] = Some(Fsp(id, lag, 0))]
    /\ last' = [op |-> "open_fsp", p |-> p, id |-> id, ret |-> "", io |-> <<>>,
                chit |-> "none", parsed |-> "none", calls |-> 0, out |-> None,
                unlockedWrite |-> FALSE, pre |-> Pre(p, id)]
    /\ UNCHANGED <<store, dbLock, data, refcount, rec, talloced, cache, alive,
                   frames, req>>

FileHasReadLease(p, do_ok) ==
    /\ alive[p]
    /\ IsSome(fsp[p])
    /\ LET f == Get(fsp[p])
           r == file_has_read_lease(Cur, p, f, do_ok)
       IN  /\ (f.seqnum_lag # 0 /\ rec[p] = NoRec /\ do_ok) => dbLock[f.file_id] = 0
           /\ store' = r.s.store
           /\ dbLock' = r.s.dbLock
           /\ data' = r.s.data
           /\ refcount' = r.s.refcount
           /\ rec' = r.s.rec
           /\ talloced' = r.s.talloced
           /\ cache' = r.s.cache
           /\ alive' = r.s.alive
           /\ frames' = r.s.frames
           /\ fsp' = [fsp EXCEPT ![p] = Some(r.fsp)]
           /\ last' = [op |-> "file_has_read_lease", p |-> p, id |-> f.file_id,
                       ret |-> r.s.ret, io |-> r.s.io, chit |-> r.s.chit,
                       parsed |-> r.s.parsed, calls |-> r.s.calls,
                       out |-> r.s.out, unlockedWrite |-> r.s.unlockedWrite,
                       pre |-> Pre(p, f.file_id), status |-> r.s.status,
                       fsp |-> f]
    /\ UNCHANGED req

\* The outcome of dbwrap_do_locked is read only when the refresh gets there.
LeaseOutcomes(p) ==
    IF IsSome(fsp[p]) /\ Get(fsp[p]).seqnum_lag # 0 /\ rec[p] = NoRec
    THEN BOOLEAN ELSE {TRUE}

\* Process p holds a handle of file id.
Holds(p, id) == IsSome(data[p]) /\ Get(data[p]).id = id

\* One process with an open of file 1: handles of both files, the record of
\* file 1 filled and its lease flag set and cleared, the stored value cut
\* short, and file_has_read_lease.
NextFlags ==
    \/ \E id \in Ids : GetShareModeLock(1, id, TRUE, TRUE, 0)
    \/ Release(1, TRUE)
    \/ Holds(1, 1) /\ AddEntry(1, EntryA)
    \/ \E f \in FlagVals : Holds(1, 1) /\ SetFlags(1, f)
    \/ \E n \in 0 .. 1 : Truncate(1, n)
    \/ \E lag \in SeqnumLags : OpenFsp(1, 1, lag)
    \/ \E do_ok \in LeaseOutcomes(1) : FileHasReadLease(1, do_ok)

SpecFlags == Init /\ [][NextFlags]_vars

\* ------------------------------------------------------------------ claims
Did(what) == last.op # "init" /\ \E i \in 1 .. Len(last.io) : last.io[i] = what
DidNext(what) == \E i \in 1 .. Len(last'.io) : last'.io[i] = what
StoreOps == {"fetch_locked", "fetch_locked_failed", "store", "store_failed",
             "delete", "delete_failed", "do_locked", "do_locked_failed"}
NoStoreOp == \A i \in 1 .. Len(last.io) : last.io[i] \notin StoreOps
\* The entries share_mode_data_store keeps.
LiveEntries(d) == SelectSeq(d.share_modes, LAMBDA e : ~e.stale)

\* C1: get_share_mode_lock for the identity whose record is already in the
\* slot succeeds, hands out the record of the slot unchanged, adds exactly
\* one to the refcount and performs no store operation.
C1_NestedAcquisition ==
    (last.op = "get" /\ IsSome(last.pre.data)
                     /\ Get(last.pre.data).id = last.id)
        => /\ last.ret = "lck"
           /\ data[last.p] = last.pre.data
           /\ refcount[last.p] = last.pre.refcount + 1
           /\ NoStoreOp
           /\ rec[last.p] = last.pre.rec
           /\ store[last.id] = last.pre.value

C1_Witness ==
    /\ last.op = "get" /\ IsSome(last.pre.data)
    /\ Get(last.pre.data).id = last.id
    /\ last.pre.refcount = 1 /\ refcount[last.p] = 2
    /\ Get(last.pre.data).modified

\* C2: get_share_mode_lock for an identity other than the one in the slot
\* fails and leaves slot, refcount, held store record, store locks and store
\* contents as they were, whether or not the other identity has a record.
C2_CrossIdentity ==
    [][(last'.op = "get" /\ IsSome(data[last'.p])
                         /\ Get(data[last'.p]).id # last'.id)
          => /\ last'.ret = "NULL"
             /\ last'.io = <<>>
             /\ UNCHANGED <<data, refcount, rec, talloced, dbLock, store, cache>>]_vars

C2_Witness ==
    /\ last.op = "get" /\ IsSome(last.pre.data)
    /\ Get(last.pre.data).id # last.id
    /\ IsSome(last.pre.value)
    /\ last.ret = "NULL"

\* C3: two live processes never have their slots occupied for the same
\* identity, a process with an occupied slot holds the per-key lock, and
\* every store write or delete is made while the writer holds that lock.
C3_OneWriter ==
    /\ \A p, q \in Procs :
          (p # q /\ alive[p] /\ alive[q] /\ IsSome(data[p]) /\ IsSome(data[q]))
              => Get(data[p]).id # Get(data[q]).id
    /\ \A p \in Procs :
          (alive[p] /\ IsSome(data[p])) => dbLock[Get(data[p]).id] = p
    /\ last.op # "init" => ~last.unlockedWrite

C3_Witness ==
    /\ last.op = "release" /\ last.p = 2 /\ Did("store")
    /\ last.pre.lock = 2 /\ dbLock[last.id] = 0
    /\ IsSome(cache[1][last.id])

\* C4: a release that leaves the refcount above zero writes nothing, deletes
\* nothing and puts nothing in the cache; the store changes only in the
\* release that brings the refcount to zero.
C4_DeferredPersistence ==
    [][/\ (last'.op = "release" /\ refcount[last'.p] > 1)
            => /\ last'.io = <<>>
               /\ UNCHANGED <<store, cache, data, dbLock>>
       /\ (store' # store \/ DidNext("store") \/ DidNext("delete"))
            => /\ last'.op = "release"
               /\ refcount[last'.p] = 1
               /\ refcount'[last'.p] = 0]_vars

C4_Witness ==
    /\ last.op = "release" /\ last.pre.refcount = 2
    /\ Get(last.pre.data).modified
    /\ Len(Get(last.pre.data).share_modes) > 0
    /\ refcount[last.p] = 1

\* C5: at the final release a loaded (not fresh) record left without
\* entries is removed by a delete and no blob is written; a fresh record
\* that is still empty causes neither a write nor a delete.
C5_EmptyRecord ==
    (last.op = "release" /\ last.pre.refcount = 1
                         /\ LiveEntries(Get(last.pre.data)) = <<>>)
        => IF Get(last.pre.data).fresh
           THEN /\ NoStoreOp
                /\ store[last.id] = last.pre.value
           ELSE /\ Did("delete") \/ Did("delete_failed")
                /\ ~Did("store") /\ ~Did("store_failed")
                /\ Did("delete") => store[last.id] = None

C5_Witness ==
    /\ last.op = "release" /\ last.pre.refcount = 1
    /\ LiveEntries(Get(last.pre.data)) = <<>>
    /\ ~Get(last.pre.data).fresh
    /\ IsSome(last.pre.value)
    /\ Did("delete") /\ store[last.id] = None

\* C8: when the write or delete of the final release fails the process
\* panics there: the store lock stays held, the cache gets nothing, the slot
\* keeps the record, and the process takes no further step.
C8_PersistFailureFatal ==
    [][/\ (last'.op = "release" /\ (DidNext("store_failed") \/ DidNext("delete_failed")))
            => /\ last'.ret = "PANIC"
               /\ ~alive'[last'.p]
               /\ ~DidNext("unlock") /\ ~DidNext("cache_add")
               /\ IsSome(data'[last'.p])
               /\ UNCHANGED <<dbLock, cache, rec, store>>
       /\ \A p \in Procs :
            ~alive[p] => /\ ~alive'[p]
                         /\ last'.p # p
                         /\ data'[p] = data[p] /\ cache'[p] = cache[p]
                         /\ rec'[p] = rec[p] /\ refcount'[p] = refcount[p]]_vars

C8_Witness ==
    /\ last.op = "release" /\ Did("store_failed")
    /\ ~alive[last.p] /\ dbLock[last.id] = last.p
    /\ IsSome(data[last.p])


DoLockedOps == {"do_locked", "do_locked_enter"}
TopFrame(p) == frames[p][Len(frames[p])]
NothingChanged ==
    UNCHANGED <<store, dbLock, data, refcount, rec, talloced, cache, alive,
                frames, req>>

\* What C9 says of a share_mode_do_locked call made while a store record is
\* held, but for the status the call returns for the held identity.
C9_Common ==
    /\ (last'.op \in DoLockedOps /\ rec[last'.p] # NoRec
                                 /\ rec[last'.p].key = last'.id)
          => /\ last'.calls = 1
             /\ ~DidNext("do_locked") /\ ~DidNext("fetch_locked")
             /\ UNCHANGED <<dbLock, rec, store>>
    /\ (last'.op \in DoLockedOps /\ rec[last'.p] # NoRec
                                 /\ rec[last'.p].key # last'.id)
          => /\ last'.ret = "INVALID_LOCK_SEQUENCE"
             /\ last'.calls = 0
             /\ last'.io = <<>>
             /\ NothingChanged

\* C9 as stated: share_mode_do_locked for the identity whose store record
\* is held runs the callback once on that record, takes no new store lock
\* and returns success; for another identity it returns
\* INVALID_LOCK_SEQUENCE, calls nothing and changes nothing.
C9_AsStated ==
    [][/\ C9_Common
       /\ (last'.op = "do_locked" /\ rec[last'.p] # NoRec
                                  /\ rec[last'.p].key = last'.id)
            => last'.ret = "OK"
       /\ (last'.op = "do_locked_return" /\ ~TopFrame(last'.p).own)
            => last'.ret = "OK"]_vars

\* C9 (amended): as above, but success is returned only if the callback
\* left the refcount as it was on entry; otherwise share_mode_do_locked
\* aborts on its refcount assertion.
C9_Reentrant ==
    [][/\ C9_Common
       /\ (last'.op = "do_locked" /\ rec[last'.p] # NoRec
                                  /\ rec[last'.p].key = last'.id)
            => last'.ret = "OK"
       /\ (last'.op = "do_locked_return" /\ ~TopFrame(last'.p).own)
            => last'.ret = IF refcount[last'.p] = TopFrame(last'.p).refcount
                           THEN "OK" ELSE "PANIC"]_vars

C9_Witness ==
    /\ last.op = "do_locked_return"
    /\ ~Get(last.pre.frame).own
    /\ last.ret = "OK"
    /\ last.pre.refcount = 1
    /\ IsSome(data[last.p])
    /\ dbLock[last.id] = last.p


\* The persistent content of a record: everything but the identity and the
\* store record it is bound to.
Content(d) == [d EXCEPT !.id = 0, !.record = NoRec]
\* The record a parse_share_modes call handed to its caller.
Parsed == IF last.op = "get" THEN data[last.p] ELSE last.out
ParseOps == {"get", "fetch_unlocked", "fetch_parse"}
SeqMatches(cached, blob) ==
    /\ IsSome(cached)
    /\ HeaderReadable(blob)
    /\ Get(cached).sequence_number = blob[1]

\* C6: share_mode_memcache_fetch returns the cached record exactly when an
\* entry exists and its sequence number equals the one in the header of the
\* stored value; with an entry present and no match the entry is evicted and
\* parse_share_modes decodes the stored blob in full.
C6_CacheCoherence ==
    (last.op \in ParseOps /\ last.chit # "none")
        => LET blob == Get(last.pre.value)
               cached == last.pre.cached
           IN  /\ (last.chit = "hit") <=> SeqMatches(cached, blob)
               /\ cache[last.p][last.id] = None
               /\ (last.chit = "hit")
                    => /\ last.parsed = "cached"
                       /\ Content(Get(Parsed)) = Content(Get(cached))
               /\ (last.chit # "hit")
                    => IF BlobDecodable(blob)
                       THEN /\ last.parsed = "decoded"
                            /\ Content(Get(Parsed))
                                 = Content(ndr_pull_share_mode_data(blob))
                       ELSE /\ last.parsed = "corrupt"
                            /\ Parsed = None

C6_Witness ==
    /\ last.op = "get" /\ last.chit = "seqchanged"
    /\ IsSome(last.pre.cached)
    /\ last.parsed = "decoded"
    /\ IsSome(data[last.p])
    /\ Content(Get(data[last.p])) # Content(Get(last.pre.cached))

\* C7: a record returned from the cache has the entry list and metadata a
\* full decode of the value stored at that moment produces.
C7_CachedCopyValid ==
    (last.op = "get" /\ last.chit = "hit")
        => /\ BlobDecodable(Get(last.pre.value))
           /\ Content(Get(data[last.p]))
                = Content(ndr_pull_share_mode_data(Get(last.pre.value)))

\* C10: an asynchronous unlocked fetch whose parser was given a zero length
\* value completes with NOT_FOUND.
C10_TombstoneNotFound ==
    (last.op = "fetch_recv" /\ last.pre.req.seen = "tombstone")
        => last.ret = "NOT_FOUND"

\* What a targeted unlocked fetch gives its caller when nothing is stored,
\* and the outcomes that put a struct share_mode_lock in the caller's hands.
NotFoundOutcome(op) == IF op = "fetch_unlocked" THEN "NULL" ELSE "NOT_FOUND"
HandleOutcomes == {"lck", "lck_without_data", "OK"}
\* The value the parser of the last fetch was given is there, is not empty
\* and does not decode.
SawCorrupt ==
    \/ /\ last.op = "fetch_unlocked"
       /\ last.parsed = "corrupt"
    \/ /\ last.op = "fetch_recv"
       /\ last.pre.req.st = "done"
       /\ last.pre.req.seen = "blob"
       /\ IsSome(last.pre.req.lck)
       /\ Get(last.pre.req.lck).data = None

\* C11: a targeted unlocked fetch of a stored value that is not empty and
\* does not decode ends in an error that is not the not-found outcome and
\* gives the caller no handle.
C11_CorruptionReported ==
    SawCorrupt => /\ last.ret # NotFoundOutcome(last.op)
                  /\ last.ret \notin HandleOutcomes

\* The entry list of the record of the file share_mode_cleanup_disconnected
\* was called for, as it was when the call was made: the record in the slot
\* if the caller holds it, else what the stored value decodes to.
EntriesAtCall ==
    IF IsSome(last.pre.data) /\ Get(last.pre.data).id = last.id
    THEN Get(last.pre.data).share_modes
    ELSE IF IsSome(last.pre.value) /\ BlobDecodable(Get(last.pre.value))
    THEN ndr_pull_share_mode_data(Get(last.pre.value)).share_modes
    ELSE <<>>
Cleanable(e) ==
    /\ e.pid = DisconnectedPid
    /\ e.share_file_id = last.open_persistent_id
Count(what) == Cardinality({i \in 1 .. Len(last.io) : last.io[i] = what})

\* C12: share_mode_cleanup_disconnected returns true only if every entry of
\* the file's record belongs to a disconnected owner and carries the open id
\* asked for; with an entry of a live owner or of another open id it returns
\* false.
C12_ConservativeCleanup ==
    (last.op = "cleanup")
        => /\ (last.ret = "TRUE")
                => \A i \in 1 .. Len(EntriesAtCall) : Cleanable(EntriesAtCall[i])
           /\ (\E i \in 1 .. Len(EntriesAtCall) : ~Cleanable(EntriesAtCall[i]))
                => last.ret = "FALSE"

C12_Witness ==
    /\ last.op = "cleanup" /\ last.ret = "FALSE"
    /\ last.pre.data = None
    /\ Len(EntriesAtCall) = 2
    /\ Cleanable(EntriesAtCall[1]) /\ ~Cleanable(EntriesAtCall[2])

\* C13: when share_mode_cleanup_disconnected returns false the record in the
\* slot, the record as released and the stored blob are what they were
\* before the call.
C13_FalseLeavesRecord ==
    (last.op = "cleanup" /\ last.ret = "FALSE")
        => /\ data[last.p] = last.pre.data
           /\ refcount[last.p] = last.pre.refcount
           /\ IsSome(last.got)
                => /\ last.atfree = last.got
                   /\ Get(last.got).share_modes = EntriesAtCall
                   /\ IsSome(last.pre.data) => last.got = last.pre.data
           /\ store[last.id] = last.pre.value
           /\ ~Did("store") /\ ~Did("delete")

C13_Witness ==
    /\ last.op = "cleanup" /\ last.ret = "FALSE"
    /\ last.pre.data = None /\ IsSome(last.pre.value)
    /\ Did("brl_cleanup") /\ Did("leases_db_del")
    /\ store[last.id] = last.pre.value

\* C14: when share_mode_cleanup_disconnected returns true and the caller
\* holds no handle, the record released had no entries and was modified,
\* brl_cleanup_disconnected ran once, and on return the stored record is gone
\* and the memcache has no record for the file.
C14_CleanupPersisted ==
    (last.op = "cleanup" /\ last.ret = "TRUE" /\ last.pre.data = None)
        => /\ IsSome(last.atfree)
           /\ Get(last.atfree).share_modes = <<>>
           /\ Get(last.atfree).modified
           /\ Count("brl_cleanup") = 1
           /\ Count("delete") = 1 /\ Count("store") = 0
           /\ store[last.id] = None
           /\ cache[last.p][last.id] = None
           /\ data[last.p] = None /\ dbLock[last.id] = 0

C14_Witness ==
    /\ last.op = "cleanup" /\ last.ret = "TRUE"
    /\ last.pre.data = None
    /\ Len(Get(last.got).share_modes) = 2
    /\ store[last.id] = None

\* The records of the store a traversal runs over, by what their value is.
Decodable(id) == IsSome(store[id]) /\ BlobDecodable(Get(store[id]))
Corrupt(id) ==
    /\ IsSome(store[id])
    /\ Get(store[id]) # <<>>
    /\ ~BlobDecodable(Get(store[id]))
VisitsOf(id) == {k \in 1 .. Len(last.visits) : last.visits[k].fid = id}
\* A share_mode_forall that ran to its end over a store with one value that
\* does not decode.
ForallOverOneCorrupt ==
    /\ last.op = "share_mode_forall"
    /\ last.stop_at = 0 /\ last.trav_ok
    /\ Cardinality({id \in Ids : Corrupt(id)}) = 1
    /\ \A id \in Ids : Decodable(id) \/ Corrupt(id) \/ store[id] = None
\* The visitor saw each decodable record once, with its decoded content, and
\* no other record.
VisitedTheValid ==
    /\ \A id \in Ids :
          Cardinality(VisitsOf(id)) = IF Decodable(id) THEN 1 ELSE 0
    /\ \A k \in 1 .. Len(last.visits) :
          last.visits[k].entry
             = ndr_pull_share_mode_data(Get(store[last.visits[k].fid]))

\* C15: over a store with N decodable records and one value that does not
\* decode, share_mode_forall calls the visitor once per decodable record,
\* never for the other one, and returns N.
C15_TraversalResilience ==
    ForallOverOneCorrupt
        => /\ VisitedTheValid
           /\ last.ret = Cardinality({id \in Ids : Decodable(id)})

\* The visitor calls share_entry_forall owes the record of one file, and all
\* of them for the order the store hands the records out in.
EntriesOf(id) ==
    IF Decodable(id)
    THEN LET d == ndr_pull_share_mode_data(Get(store[id]))
         IN  [i \in 1 .. Len(d.share_modes) |->
                 [fid |-> id, i |-> i, entry |-> d.share_modes[i]]]
    ELSE <<>>
AllEntries(order) == EntriesOf(order[1]) \o EntriesOf(order[2])

\* C16: share_entry_forall calls the visitor once per entry of every
\* decodable record, record by record in entry order, and makes no call
\* after the one that returned non-zero.
C16_EntryEnumeration ==
    (last.op = "share_entry_forall")
        => LET all == AllEntries(last.order)
           IN  last.visits = IF last.stop_at \in 1 .. Len(all)
                             THEN SubSeq(all, 1, last.stop_at)
                             ELSE all

C16_Witness ==
    /\ last.op = "share_entry_forall"
    /\ last.stop_at = 1
    /\ Len(EntriesOf(last.order[1])) = 2
    /\ Len(EntriesOf(last.order[2])) > 0
    /\ Len(last.visits) = 1
    /\ EntriesOf(last.order[1])[1].entry # EntriesOf(last.order[1])[2].entry

\* The answer file_has_read_lease gives from a flags byte.
LeaseAnswer(flags) ==
    IF flags % 2 = SHARE_MODE_HAS_READ_LEASE THEN "true" ELSE "false"

\* C17: file_has_read_lease goes to the store (share_mode_do_locked with the
\* header peek) only when the sequence number of locking.tdb differs from
\* the one recorded in the open; when they are equal it answers from the
\* flags kept in the open and touches nothing; the recorded sequence number
\* and the kept flags change only in a refresh that succeeded, which records
\* the flags of the stored header.
C17_LazyRefresh ==
    (last.op = "file_has_read_lease")
        => LET f == last.fsp
               g == Get(fsp[last.p])
           IN  /\ (f.seqnum_lag = 0)
                    => /\ last.io = <<>> /\ last.calls = 0
                       /\ g = f
                       /\ last.ret = LeaseAnswer(f.share_mode_flags)
               /\ (last.calls > 0 \/ last.io # <<>>) => f.seqnum_lag # 0
               /\ (g # f)
                    => /\ f.seqnum_lag # 0
                       /\ last.status = "OK" /\ last.calls = 1
                       /\ IsSome(last.pre.value)
                       /\ HeaderReadable(Get(last.pre.value))
               /\ (f.seqnum_lag # 0 /\ last.status = "OK")
                    => /\ g.seqnum_lag = 0
                       /\ g.share_mode_flags = Get(last.pre.value)[2]
                       /\ last.ret = LeaseAnswer(g.share_mode_flags)

C17_Witness ==
    /\ last.op = "file_has_read_lease"
    /\ last.fsp.seqnum_lag # 0
    /\ last.status = "OK"
    /\ last.fsp.share_mode_flags = 0
    /\ Get(fsp[last.p]).share_mode_flags = 1
    /\ last.ret = "true"

\* C18: get_share_mode_lock on a free slot, for a file without stored
\* record and without the creation parameters, fails and leaves the slot
\* empty, the refcount 0, the key unlocked again and the store untouched.
C18_MissingParams ==
    (last.op = "get" /\ ~last.params /\ last.pre.data = None
                     /\ ValueIsNull(last.pre.value))
        => /\ last.ret = "NULL"
           /\ data[last.p] = None
           /\ refcount[last.p] = 0
           /\ rec[last.p] = last.pre.rec
           /\ dbLock[last.id] = last.pre.lock
           /\ Count("fetch_locked") = Count("unlock")
           /\ store[last.id] = last.pre.value
           /\ ~Did("store") /\ ~Did("delete")
           /\ cache[last.p] = [i \in Ids |-> IF i = last.id THEN last.pre.cached
                                                           ELSE cache[last.p][i]]

C18_Witness ==
    /\ last.op = "get" /\ ~last.params
    /\ last.pre.data = None /\ last.pre.value = None
    /\ last.pre.rec = NoRec
    /\ Did("fetch_locked") /\ Did("unlock")
    /\ last.ret = "NULL" /\ dbLock[last.id] = 0

\* C19: a process has at most one record in its slot; the slot is filled
\* only by get_share_mode_lock, for the file it was called for, and emptied
\* only by the release of the last handle; in between the record stays the
\* record of that file.
C19_OneSlot ==
    [][\A p \in Procs :
          /\ Len(data[p]) <= 1 /\ Len(data'[p]) <= 1
          /\ (IsSome(data[p]) /\ IsSome(data'[p]))
                => Get(data'[p]).id = Get(data[p]).id
          /\ (data[p] = None /\ IsSome(data'[p]))
                => /\ last'.op = "get" /\ last'.p = p
                   /\ Get(data'[p]).id = last'.id
                   /\ refcount[p] = 0 /\ refcount'[p] = 1
          /\ (IsSome(data[p]) /\ data'[p] = None)
                => /\ last'.op = "release" /\ last'.p = p
                   /\ refcount[p] = 1 /\ refcount'[p] = 0]_vars

C19_Witness ==
    /\ last.op = "get" /\ last.ret = "lck"
    /\ IsSome(last.pre.data) /\ last.pre.refcount = 1
    /\ Get(last.pre.data).id = 2
    /\ Len(Get(last.pre.data).share_modes) > 0
    /\ IsSome(store[1])
    /\ Get(data[last.p]).id = 2

\* C20: a blob that replaces the blob stored for the same file carries a
\* strictly greater sequence number than the blob it replaces.
WrittenOver(id) ==
    /\ DidNext("store")
    /\ IsSome(store[id]) /\ IsSome(store'[id])
    /\ store'[id] # store[id]
    /\ HeaderReadable(Get(store[id])) /\ HeaderReadable(Get(store'[id]))
C20_StrictlyIncreasing ==
    [][\A id \in Ids :
          WrittenOver(id)
              => get_share_mode_blob_header(Get(store'[id])).seq
                     > get_share_mode_blob_header(Get(store[id])).seq]_vars

\* What the code does instead: one more than the number replaced, modulo
\* the width of the field.
C20_Increment ==
    [][\A id \in Ids :
          (WrittenOver(id) /\ BlobDecodable(Get(store[id])))
              => get_share_mode_blob_header(Get(store'[id])).seq
                     = (get_share_mode_blob_header(Get(store[id])).seq + 1)
                           % SeqMod]_vars

\* C21: every record in the memcache of a process has modified and fresh
\* false and no db_record.
C21_CachedClean ==
    \A p \in Procs, id \in Ids :
        IsSome(cache[p][id])
            => /\ ~Get(cache[p][id]).modified
               /\ ~Get(cache[p][id]).fresh
               /\ Get(cache[p][id]).record = NoRec

\* A record created in this acquisition (fresh, modified) was released with
\* an entry and is now in the cache.
C21_Witness ==
    /\ last.op = "release" /\ Did("cache_add")
    /\ Get(last.pre.data).modified /\ Get(last.pre.data).fresh
    /\ IsSome(cache[last.p][last.id])

\* C22: while a process has the record of a file in its slot, the value
\* stored for the file changes only in the final release of a modified
\* record; the final release of an unmodified record issues no store and no
\* delete, leaves the sequence number of the record as it was, and the
\* stored value is the one the acquisition found.
FinalRelease(p) ==
    /\ last'.op = "release" /\ last'.p = p
    /\ refcount[p] = 1
C22_UnmodifiedRelease ==
    [][\A p \in Procs :
          (IsSome(data[p]) /\ ~(FinalRelease(p) /\ Get(data[p]).modified))
              => LET d == Get(data[p])
                 IN  /\ store'[d.id] = store[d.id]
                     /\ FinalRelease(p)
                           => /\ ~DidNext("store") /\ ~DidNext("delete")
                              /\ ~DidNext("store_failed")
                              /\ ~DidNext("delete_failed")
                              /\ data'[p] = None
                              /\ DidNext("cache_add")
                                    => Get(cache'[p][d.id]).sequence_number
                                           = d.sequence_number]_vars

\* An unmodified record with an entry was released for good: the stored
\* value is the one found before, and the record went to the cache.
C22_Witness ==
    /\ last.op = "release" /\ last.pre.refcount = 1
    /\ ~Get(last.pre.data).modified
    /\ IsSome(last.pre.value) /\ store[last.id] = last.pre.value
    /\ Did("unlock") /\ Did("cache_add")
    /\ data[last.p] = None

\* C23: an operation during which a collaborator reported a failure
\* (dbwrap_fetch_locked, dbwrap_record_store, dbwrap_record_delete,
\* leases_db_del, brl_cleanup_disconnected) ends with a failure outcome.
CollaboratorFailures ==
    {"fetch_locked_failed", "store_failed", "delete_failed",
     "do_locked_failed", "leases_db_del_failed"}
CollaboratorFailed ==
    \/ \E i \in 1 .. Len(last.io) : last.io[i] \in CollaboratorFailures
    \/ last.op = "cleanup" /\ Did("brl_cleanup") /\ ~last.brl_ok
FailureOutcomes == {"NULL", "FALSE", "PANIC", "UNSUCCESSFUL"}
C23_NoSwallowedErrors ==
    (last.op # "init" /\ CollaboratorFailed) => last.ret \in FailureOutcomes

\* The same without the lease store.
C23_OtherCollaborators ==
    (last.op # "init" /\ CollaboratorFailed /\ ~Did("leases_db_del_failed"))
        => last.ret \in FailureOutcomes

\* C24: the steps of a final release.
FinalReleaseDone ==
    /\ last.op = "release" /\ last.pre.refcount = 1 /\ last.ret = "0"
Pos(what) == {i \in 1 .. Len(last.io) : last.io[i] = what}
Before(a, b) == \A i \in Pos(a), j \in Pos(b) : i < j
\* The entries the record has when the destructor looks at num_share_modes.
EntriesAtRelease ==
    LET d == Get(last.pre.data)
    IN  IF d.modified THEN LiveEntries(d) ELSE d.share_modes
ReleaseSteps ==
    /\ Before("store", "unlock") /\ Before("delete", "unlock")
    /\ Before("store", "cache_add") /\ Before("delete", "cache_add")
    /\ Before("unlock", "cache_add")
    /\ Did("cache_add") <=> EntriesAtRelease # <<>>
    /\ Did("cache_add")
          => /\ IsSome(cache[last.p][last.id])
             /\ Get(cache[last.p][last.id]).record = NoRec
             /\ Get(cache[last.p][last.id]).share_modes = EntriesAtRelease
    /\ data[last.p] = None

C25_SlotConsistency ==
    /\ \A p \in Procs :
          alive[p]
              => /\ IsSome(data[p]) <=> refcount[p] > 0
                 /\ IsSome(data[p])
                       => /\ rec[p] # NoRec
                          /\ Get(data[p]).record = rec[p]
                          /\ rec[p].key = Get(data[p]).id
                          /\ dbLock[Get(data[p]).id] = p
    /\ (last.op \in {"get", "release"} /\ last.ret = "PANIC")
          => /\ last.op = "release"
             /\ last.pre.refcount = 1
             /\ Did("store_failed") \/ Did("delete_failed")

\* Two handles on a record acquired inside share_mode_do_locked: the record
\* points at the db_record of the running call.
C25_Witness ==
    /\ last.op = "get" /\ last.ret = "lck"
    /\ refcount[last.p] = 2
    /\ rec[last.p] = StackRec(last.id)
    /\ Get(data[last.p]).record = StackRec(last.id)
    /\ frames[last.p] # <<>>

\* C26: inside a share_mode_do_locked call that took the locking.tdb lock
\* itself, the lock and the db_record stay with the process through every
\* step of the callback; the release of the last handle the callback
\* acquired persists a modified record without dropping the lock; the return
\* drops the lock and the db_record and gives success if the refcount is
\* what it was on entry, and stops on the refcount assertion otherwise.
InOwnCall(p) == alive[p] /\ frames[p] # <<>> /\ TopFrame(p).own
C26_BorrowedRecord ==
    [][\A p \in Procs :
          InOwnCall(p)
              => LET fr == TopFrame(p)
                     d == Get(data[p])
                 IN  /\ dbLock[fr.id] = p /\ rec[p] = StackRec(fr.id)
                     /\ (last'.op # "do_locked_return" /\ alive'[p])
                           => /\ dbLock'[fr.id] = p
                              /\ rec'[p] = StackRec(fr.id)
                              /\ ~DidNext("unlock")
                     /\ (FinalRelease(p) /\ alive'[p])
                           => /\ d.id = fr.id
                              /\ data'[p] = None /\ refcount'[p] = 0
                              /\ (d.modified /\ LiveEntries(d) # <<>>)
                                    => /\ DidNext("store")
                                       /\ IsSome(store'[fr.id])
                              /\ (d.modified /\ LiveEntries(d) = <<>> /\ ~d.fresh)
                                    => /\ DidNext("delete")
                                       /\ store'[fr.id] = None
                     /\ last'.op = "do_locked_return"
                           => IF refcount[p] = fr.refcount
                              THEN /\ last'.ret = "OK"
                                   /\ refcount'[p] = fr.refcount
                                   /\ rec'[p] = NoRec
                                   /\ dbLock'[fr.id] = 0
                                   /\ Len(frames'[p]) = Len(frames[p]) - 1
                              ELSE /\ last'.ret = "PANIC"
                                   /\ ~alive'[p]]_vars

\* The callback released its last handle on a record it changed: the record
\* was stored and the lock of the running call is still held.
C26_Witness ==
    /\ last.op = "release" /\ last.ret = "0"
    /\ IsSome(last.pre.frame)
    /\ Get(last.pre.frame).own /\ Get(last.pre.frame).refcount = 0
    /\ last.pre.refcount = 1
    /\ Did("store") /\ ~Did("unlock")
    /\ rec[last.p] = StackRec(last.id) /\ dbLock[last.id] = last.p
    /\ refcount[last.p] = 0

\* The flags byte of the value stored for the file of the open, when the
\* header of the value can be read.
StoredLeaseBit(answer) ==
    /\ IsSome(last.pre.value)
    /\ HeaderReadable(Get(last.pre.value))
    /\ LeaseAnswer(get_share_mode_blob_header(Get(last.pre.value)).flags)
           = answer
StoredLeaseBitClear == StoredLeaseBit("false")

\* C27: file_has_read_lease never answers false while the record stored for
\* the file of the open has the read lease bit set, and answers true
\* whenever the refresh failed.
C27_NoFalseNegative ==
    (last.op = "file_has_read_lease" /\ last.ret # "PANIC")
        => /\ last.ret = "false" => ~StoredLeaseBit("true")
           /\ last.status # "OK" => last.ret = "true"

\* What holds: the same for the calls that found the sequence number of
\* locking.tdb different from the one recorded in the open.
C27_WhenRefreshed ==
    (last.op = "file_has_read_lease" /\ last.ret # "PANIC"
                                     /\ last.fsp.seqnum_lag # 0)
        => /\ last.ret = "false" => StoredLeaseBitClear
           /\ last.status # "OK" => last.ret = "true"

====
